---- MODULE Spec2Model ----
(***************************************************************************)
(* samplerust (src/src/main.rs): WAV files are decoded into AudioBuffers,  *)
(* and an output-stream callback mixes them by summing loop_next() of      *)
(* every buffer for every position of the block the driver hands in.       *)
(*                                                                         *)
(* Samples.  A stored sample is the f32 `x as f32 / 32768.` of an i16 x.   *)
(* Every such value is a multiple of 2^-15 and is exact in f32, and so is  *)
(* every sum of fewer than 2^8 of them, so an f32 is represented here by   *)
(* the integer number of 2^-15 units it holds (F32One units make 1.0).     *)
(***************************************************************************)
EXTENDS Integers, Sequences, FiniteSets

\* ---- bounds of the model ----
MaxLen   == 2      \* samples per WAV file
MaxFiles == 2      \* -w arguments
MaxBlock == 4      \* positions of one output block
MaxCalls == 8      \* advances of a track that are counted
MaxSeek  == 3      \* largest position handed to seek
MaxLongLen == 3    \* samples per file where tracks of coprime lengths mix

\* ---- program constants ----
F32One == 32768    \* 1.0f32 in 2^-15 units
I16Min == -32768
I16Max == 32767

\* i16 values the WAV files of the model are drawn from
RawValues == {I16Min, 16384, I16Max}

\* One item of hound's sample iterator, a Result<i16>, as the elements its
\* IntoIterator yields: Ok(x) yields x, an Err (a failed read) yields none.
Ok(x) == <<x>>

ERR == <<>>

Items == {Ok(x) : x \in RawValues} \cup {ERR}

SeqsUpTo(S, n) == UNION {[1..k -> S] : k \in 0..n}

\* channel counts of the WAV files of the model
ChannelCounts == {1, 2}

\* A file on disk: whether WavReader::open succeeds, its channel count, and
\* what each of the num_samples reads of into_samples::<i16>() yields, the
\* channels of a frame one after the other.  A file that opens holds whole
\* frames (hound refuses a data chunk that does not).
WavFiles ==
  {f \in [opens : BOOLEAN, channels : ChannelCounts,
          samples : SeqsUpTo(Items, MaxLen)] :
     /\ ~f.opens => (f.samples = <<>> /\ f.channels = 1)
     /\ Len(f.samples) % f.channels = 0}

\* the number of sample frames of file f
frames(f) == Len(f.samples) \div f.channels

VARIABLES
  pc,         \* position of main / state of the caller of a track
  wav_files,  \* opt.wav_files, as the files they name
  audios,     \* Vec<AudioBuffer>, each [buffer, playhead]
  data,       \* positions of the output block written by the last callback
  ret,        \* value returned by the last next / loop_next call
  ncalls      \* next / loop_next calls made, or block positions handed in

vars == <<pc, wav_files, audios, data, ret, ncalls>>

\* ---- AudioBuffer ----

\* Iterator::flatten over the Result items: their elements, in order
RECURSIVE flatten(_)
flatten(items) ==
  IF items = <<>> THEN <<>> ELSE Head(items) \o flatten(Tail(items))

\* the scale off by one
normalize_32767(x) == (x * F32One) \div 32767

\* |x| x as f32 / 32768.
normalize(x) == (x * F32One) \div 32768

\* AudioBuffer::new, once WavReader::open has succeeded
new(f) ==
  LET ok == flatten(f.samples)
  IN  [buffer |-> [i \in 1..Len(ok) |-> normalize(ok[i])], playhead |-> 0]

\* next that keeps counting after the end
next_overrun(t) ==
  [track |-> [t EXCEPT !.playhead = t.playhead + 1],
   sample |-> IF t.playhead >= Len(t.buffer) THEN 0
              ELSE t.buffer[t.playhead + 1],
   ok |-> TRUE]

\* AudioBuffer::next
next(t) ==
  IF t.playhead >= Len(t.buffer)
  THEN [track |-> t, sample |-> 0, ok |-> TRUE]
  ELSE [track |-> [t EXCEPT !.playhead = t.playhead + 1],
        sample |-> t.buffer[t.playhead + 1], ok |-> TRUE]

\* loop_next without the wrap-around
loop_next_nowrap(t) ==
  IF t.playhead >= Len(t.buffer)
  THEN [track |-> t, sample |-> 0, ok |-> FALSE]
  ELSE [track |-> [t EXCEPT !.playhead = t.playhead + 1],
        sample |-> t.buffer[t.playhead + 1], ok |-> TRUE]

\* loop_next that clears the sample it has read
loop_next_consume(t) ==
  IF t.playhead >= Len(t.buffer)
  THEN [track |-> t, sample |-> 0, ok |-> FALSE]
  ELSE [track |-> [t EXCEPT !.playhead = (t.playhead + 1) % Len(t.buffer),
                            !.buffer[t.playhead + 1] = 0],
        sample |-> t.buffer[t.playhead + 1], ok |-> TRUE]

\* loop_next that advances by two
loop_next_skip(t) ==
  IF t.playhead >= Len(t.buffer)
  THEN [track |-> t, sample |-> 0, ok |-> FALSE]
  ELSE [track |-> [t EXCEPT !.playhead = (t.playhead + 2) % Len(t.buffer)],
        sample |-> t.buffer[t.playhead + 1], ok |-> TRUE]

\* AudioBuffer::loop_next; the index panics when playhead is out of bounds
loop_next(t) ==
  IF t.playhead >= Len(t.buffer)
  THEN [track |-> t, sample |-> 0, ok |-> FALSE]
  ELSE [track |-> [t EXCEPT !.playhead = (t.playhead + 1) % Len(t.buffer)],
        sample |-> t.buffer[t.playhead + 1], ok |-> TRUE]

\* seek that rejects a position outside the buffer
seek_checked(t, position) ==
  IF position >= Len(t.buffer) THEN t ELSE [t EXCEPT !.playhead = position]

\* AudioBuffer::seek
seek(t, position) == [t EXCEPT !.playhead = position]

\* ---- the mixing callback ----

\* audios.iter_mut().map(|buffer| buffer.loop_next()).sum(): tracks i..len
\* are advanced in order; a panic leaves the earlier ones advanced.
RECURSIVE sum_loop_next(_, _, _)
sum_loop_next(tracks, i, acc) ==
  IF i > Len(tracks)
  THEN [audios |-> tracks, value |-> acc, ok |-> TRUE]
  ELSE LET r == loop_next(tracks[i])
       IN  IF ~r.ok
           THEN [audios |-> tracks, value |-> acc, ok |-> FALSE]
           ELSE sum_loop_next([tracks EXCEPT ![i] = r.track], i + 1,
                              acc + r.sample)

\* for sample in data.iter_mut() { *sample = sum }: out holds the positions
\* written so far of a block of n
RECURSIVE fill(_, _, _)
fill(tracks, out, n) ==
  IF Len(out) >= n
  THEN [audios |-> tracks, data |-> out, ok |-> TRUE]
  ELSE LET m == sum_loop_next(tracks, 1, 0)
       IN  IF ~m.ok
           THEN [audios |-> m.audios, data |-> out, ok |-> FALSE]
           ELSE fill(m.audios, Append(out, m.value), n)

\* the sums limited to [-1.0, 1.0]
output_data_fn_clip(tracks, n) ==
  LET r == fill(tracks, <<>>, n)
      clip(v) == IF v > F32One THEN F32One
                 ELSE IF v < -F32One THEN -F32One ELSE v
  IN  [r EXCEPT !.data = [i \in DOMAIN r.data |-> clip(r.data[i])]]

\* the sum taken once, outside the loop over the block
output_data_fn_once(tracks, n) ==
  LET m == sum_loop_next(tracks, 1, 0)
  IN  IF n = 0 THEN [audios |-> tracks, data |-> <<>>, ok |-> TRUE]
      ELSE [audios |-> m.audios,
            data |-> IF m.ok THEN [i \in 1..n |-> m.value] ELSE <<>>,
            ok |-> m.ok]

\* the last position of the block left unwritten
output_data_fn_short(tracks, n) == fill(tracks, <<>>, n - 1)

\* the first position of a block taken with next, the rest with loop_next
output_data_fn_mixed(tracks, n) ==
  IF n = 0 THEN [audios |-> tracks, data |-> <<>>, ok |-> TRUE]
  ELSE LET first == [k \in DOMAIN tracks |-> next(tracks[k])]
           RECURSIVE total(_)
           total(k) == IF k = 0 THEN 0 ELSE total(k - 1) + first[k].sample
       IN  fill([k \in DOMAIN tracks |-> first[k].track],
                <<total(Len(tracks))>>, n)

\* every block started from the beginning of the tracks
output_data_fn_rewind(tracks, n) ==
  fill([k \in DOMAIN tracks |-> seek(tracks[k], 0)], <<>>, n)

\* lines 137-142, the closure handed to build_output_stream
output_data_fn(tracks, n) == fill(tracks, <<>>, n)

\* ---- main ----

Init ==
  /\ pc = "start"
  /\ wav_files \in SeqsUpTo(WavFiles, MaxFiles)
  /\ audios = <<>>
  /\ data = <<>>
  /\ ret = 0
  /\ ncalls = 0

\* lines 112-133: --list-devices returns early, a missing device panics,
\* a failed query returns the error
Startup ==
  /\ pc = "start"
  /\ \E outcome \in {"listed", "panic", "exit_err", "decode"} : pc' = outcome
  /\ UNCHANGED <<wav_files, audios, data, ret, ncalls>>

\* line 135, one element of the map: AudioBuffer::new(filename)
Decode ==
  /\ pc = "decode"
  /\ Len(audios) < Len(wav_files)
  /\ LET f == wav_files[Len(audios) + 1]
     IN  IF f.opens
         THEN /\ audios' = Append(audios, new(f))
              /\ pc' = pc
         ELSE /\ pc' = "panic"
              /\ audios' = audios
  /\ UNCHANGED <<wav_files, data, ret, ncalls>>

\* line 148: build_output_stream(...)?
BuildStream ==
  /\ pc = "decode"
  /\ Len(audios) = Len(wav_files)
  /\ \E outcome \in {"built", "exit_err"} : pc' = outcome
  /\ UNCHANGED <<wav_files, audios, data, ret, ncalls>>

\* lines 151-153: output_stream.play()? and park
Play ==
  /\ pc = "built"
  /\ \E outcome \in {"playing", "exit_err"} : pc' = outcome
  /\ UNCHANGED <<wav_files, audios, data, ret, ncalls>>

\* lines 137-142: the driver calls output_data_fn with a block of n
Callback ==
  /\ pc = "playing"
  /\ \E n \in 0..MaxBlock :
       /\ ncalls + n <= MaxCalls
       /\ LET r == output_data_fn(audios, n)
          IN  /\ audios' = r.audios
              /\ data' = r.data
              /\ pc' = IF r.ok THEN "playing" ELSE "callback_panic"
              /\ ncalls' = ncalls + n
  /\ UNCHANGED <<wav_files, ret>>

Next == Startup \/ Decode \/ BuildStream \/ Play \/ Callback

Spec == Init /\ [][Next]_vars

\* ---- one AudioBuffer and a caller of its methods ----

\* the track AudioBuffer::new returns for a file that opens
InitTrack ==
  /\ pc = "api"
  /\ \E f \in WavFiles : f.opens /\ wav_files = <<f>> /\ audios = <<new(f)>>
  /\ data = <<>>
  /\ ret = 0
  /\ ncalls = 0

\* a call of AudioBuffer::next
CallNext ==
  /\ pc = "api"
  /\ ncalls < MaxCalls
  /\ LET r == next(audios[1])
     IN  /\ audios' = <<r.track>>
         /\ ret' = r.sample
         /\ pc' = IF r.ok THEN "api" ELSE "api_panic"
  /\ ncalls' = ncalls + 1
  /\ UNCHANGED <<wav_files, data>>

\* a call of AudioBuffer::loop_next
CallLoopNext ==
  /\ pc = "api"
  /\ ncalls < MaxCalls
  /\ LET r == loop_next(audios[1])
     IN  /\ audios' = <<r.track>>
         /\ ret' = r.sample
         /\ pc' = IF r.ok THEN "api" ELSE "api_panic"
  /\ ncalls' = ncalls + 1
  /\ UNCHANGED <<wav_files, data>>

\* a call of AudioBuffer::seek
CallSeek ==
  /\ pc = "api"
  /\ \E position \in 0..MaxSeek : audios' = <<seek(audios[1], position)>>
  /\ UNCHANGED <<pc, wav_files, data, ret, ncalls>>

\* only loop_next is called, as the callback does
NextLoop == CallLoopNext

SpecLoop == InitTrack /\ [][NextLoop]_vars

\* only next is called
NextBounded == CallNext

SpecBounded == InitTrack /\ [][NextBounded]_vars

\* any method in any order
NextApi == CallSeek \/ CallNext \/ CallLoopNext

SpecApi == InitTrack /\ [][NextApi]_vars

\* ---- properties ----

\* C2: a looping track of length L >= 1 started at playhead 0 returns
\* buffer[m mod L] on call number m (counted from 0) and has playhead
\* m mod L after m calls, so the first L calls give the sequence in order,
\* k*L + r calls leave it as r calls do, and no call fails.
C2_LoopPeriodic ==
  LET t == audios[1]
      L == Len(t.buffer)
  IN  (pc \in {"api", "api_panic"} /\ L >= 1) =>
        /\ pc = "api"
        /\ t.playhead = ncalls % L
        /\ ncalls >= 1 => ret = t.buffer[((ncalls - 1) % L) + 1]

\* a track of length 2 that has gone round more than once, mid-cycle
C2_Witness ==
  /\ pc = "api"
  /\ Len(audios[1].buffer) = 2
  /\ audios[1].buffer[1] # audios[1].buffer[2]
  /\ ncalls = 5
  /\ audios[1].playhead = 1
  /\ ret = audios[1].buffer[1]

\* a track of one sample, called several times: playhead still 0
C2_WitnessOne ==
  /\ pc = "api"
  /\ Len(audios[1].buffer) = 1
  /\ ncalls >= 3
  /\ audios[1].playhead = 0
  /\ ret = audios[1].buffer[1]

\* C3: under next alone, from playhead 0 on a buffer of length L: the first
\* L calls return buffer[1..L] in order and leave playhead = number of
\* calls; every later call returns 0 and leaves playhead = L; playhead <= L.
C3_BoundedSilence ==
  LET t == audios[1]
      L == Len(t.buffer)
  IN  pc \in {"api", "api_panic"} =>
        /\ pc = "api"
        /\ t.playhead <= L
        /\ ncalls <= L => t.playhead = ncalls
        /\ (1 <= ncalls /\ ncalls <= L) => ret = t.buffer[ncalls]
        /\ ncalls > L => (ret = 0 /\ t.playhead = L)

\* a track of length 2 called at least twice past its end
C3_Witness ==
  /\ pc = "api"
  /\ Len(audios[1].buffer) = 2
  /\ ncalls >= 4
  /\ audios[1].playhead = 2
  /\ ret = 0

\* C9 as claimed: whatever is called, the playhead stays within the buffer
\* (at most length; below length for a track that is looped), so an
\* out-of-range seek position is never stored.
C9_PlayheadInRange ==
  pc \in {"api", "api_panic"} =>
    audios[1].playhead <= Len(audios[1].buffer)

\* the sample a looping track in state t returns on its i-th advance
Returned(t, i) == t.buffer[((t.playhead + i - 1) % Len(t.buffer)) + 1]

\* the plain sum of the i-th returned samples of tracks 1..k
RECURSIVE PlainSum(_, _, _)
PlainSum(tracks, i, k) ==
  IF k = 0 THEN 0 ELSE PlainSum(tracks, i, k - 1) + Returned(tracks[k], i)

\* a step of the callback that returns
CallbackReturns == pc = "playing" /\ pc' = "playing"

\* C1: a callback that returns from a block of n positions has written all
\* n, and position i holds the plain sum over all tracks of the sample each
\* track returns on its i-th advance of the call: not averaged, not scaled,
\* not clipped.
C1_FillIsPlainSum ==
  [][CallbackReturns =>
       LET n == ncalls' - ncalls
       IN  /\ Len(data') = n
           /\ \A i \in 1..n : data'[i] = PlainSum(audios, i, Len(audios))]_vars

\* two tracks of different lengths, a block of 3, a sum beyond -1.0
C1_Witness ==
  /\ pc = "playing"
  /\ Len(audios) = 2
  /\ Len(audios[1].buffer) = 2
  /\ Len(audios[2].buffer) = 1
  /\ Len(data) = 3
  /\ data[1] = 2 * normalize(I16Min)
  /\ data[2] = normalize(16384) + normalize(I16Min)
  /\ data[3] = data[1]

\* C4: a callback that returns from a block of n positions has advanced
\* every track n times: a track of length L at playhead p ends at
\* (p + n) mod L, whatever the other tracks are (a track with no samples
\* only survives a block of 0 positions, unmoved).
C4_FillAdvancesEachTrack ==
  [][CallbackReturns =>
       LET n == ncalls' - ncalls
       IN  /\ Len(audios') = Len(audios)
           /\ \A k \in DOMAIN audios :
                LET L == Len(audios[k].buffer)
                IN  IF L = 0
                    THEN n = 0 /\ audios'[k].playhead = audios[k].playhead
                    ELSE audios'[k].playhead
                           = (audios[k].playhead + n) % L]_vars

\* tracks of lengths 2 and 1 after blocks of 3 positions in all
C4_Witness ==
  /\ pc = "playing"
  /\ Len(audios) = 2
  /\ Len(audios[1].buffer) = 2
  /\ Len(audios[2].buffer) = 1
  /\ ncalls = 3
  /\ Len(data) = 3
  /\ audios[1].playhead = 1
  /\ audios[2].playhead = 0

\* C5: with no tracks a callback returns with 0 in every position of the
\* block, whatever its size.
C5_NoTracksSilence ==
  [][(pc = "playing" /\ audios = <<>>) =>
       /\ pc' = "playing"
       /\ data' = [i \in 1..(ncalls' - ncalls) |-> 0]]_vars

\* no files, and a block of MaxBlock zeros
C5_Witness ==
  /\ pc = "playing"
  /\ wav_files = <<>>
  /\ audios = <<>>
  /\ data = [i \in 1..MaxBlock |-> 0]

\* a sample read of file f that failed
HasFailedRead(f) == \E j \in DOMAIN f.samples : f.samples[j] = ERR

\* C6 as claimed: the stream is built only after every file is decoded, and
\* never when a file did not open or a read of one of its samples failed.
C6_DecodeFailFast ==
  pc \in {"built", "playing", "callback_panic"} =>
    /\ Len(audios) = Len(wav_files)
    /\ \A i \in DOMAIN wav_files :
         wav_files[i].opens /\ ~HasFailedRead(wav_files[i])

\* C7 as claimed: a track that new returns holds every sample of its file,
\* none missing.
C7_AllOrNothing ==
  \A i \in DOMAIN audios :
    Len(audios[i].buffer) = Len(wav_files[i].samples)

\* C8 as claimed: every track that new returns has at least one sample.
C8_LengthAtLeastOne ==
  \A i \in DOMAIN audios : Len(audios[i].buffer) >= 1


\* C11 as claimed: the length of a decoded track is the number of sample
\* frames of its file, single-channel or multi-channel.
C11_LengthIsFrames ==
  \A i \in DOMAIN audios : Len(audios[i].buffer) = frames(wav_files[i])


\* ---- the program and the callers of one track, side by side ----

InitAll == Init \/ InitTrack

NextAll == Next \/ NextApi

SpecAll == InitAll /\ [][NextAll]_vars

\* every stored sample is raw / 32768 of the raw value read for it, and
\* lies in [-1.0, 1.0]
StoredNormalized ==
  \A k \in DOMAIN audios :
    LET raw == flatten(wav_files[k].samples)
    IN  /\ Len(audios[k].buffer) = Len(raw)
        /\ \A j \in DOMAIN raw :
             /\ audios[k].buffer[j] * 32768 = raw[j] * F32One
             /\ -F32One <= audios[k].buffer[j]
             /\ audios[k].buffer[j] <= F32One

\* a next or loop_next call that returns
TrackCallReturns == pc = "api" /\ pc' = "api" /\ ncalls' = ncalls + 1

\* C12: normalization happens once, at decode time: every stored sample is
\* raw / 32768 and within [-1.0, 1.0] in every state; a next or loop_next
\* call that returns gives the stored sample under the playhead as it is
\* (next gives 0 past the end), and a callback that returns writes the
\* plain sums of stored samples.
C12_NormalizedOnce ==
  /\ []StoredNormalized
  /\ [][/\ TrackCallReturns =>
             ret' = IF audios[1].playhead < Len(audios[1].buffer)
                    THEN audios[1].buffer[audios[1].playhead + 1]
                    ELSE 0
        /\ CallbackReturns =>
             \A i \in 1..(ncalls' - ncalls) :
               data'[i] = PlainSum(audios, i, Len(audios))]_vars

\* one track holding both ends of the i16 range, played by the callback
C12_Witness ==
  /\ pc = "playing"
  /\ Len(audios) = 1
  /\ flatten(wav_files[1].samples) = <<I16Min, I16Max>>
  /\ audios[1].buffer = <<-F32One, F32One - 1>>
  /\ Len(data) = 2
  /\ data = audios[1].buffer

\* C13 as claimed: once the stream has started, every callback completes:
\* no index out of bounds, no division by zero.
C13_CallbackNeverPanics == pc # "callback_panic"


\* C14: seek stores whatever position it is given (from any state of a
\* track every position up to MaxSeek can be made the playhead), and with
\* the playhead at or beyond the length a loop_next call is an out-of-bounds
\* read: it panics and cannot return a sample.
C14_UncheckedSeek ==
  pc = "api" =>
    /\ \A p \in 0..MaxSeek : ENABLED (CallSeek /\ audios'[1].playhead = p)
    /\ (ncalls < MaxCalls /\ audios[1].playhead >= Len(audios[1].buffer)) =>
         /\ ENABLED (CallLoopNext /\ pc' = "api_panic")
         /\ ~ENABLED (CallLoopNext /\ pc' = "api")

\* a track of 2 samples whose caller panicked with the playhead past the end
C14_Witness ==
  /\ pc = "api_panic"
  /\ Len(audios[1].buffer) = 2
  /\ audios[1].playhead = MaxSeek
  /\ MaxSeek > 2


\* ---- the stream driven for ever ----

\* lines 137-142: the driver calls output_data_fn with a non-empty block;
\* the calls are not counted
Drive ==
  /\ pc = "playing"
  /\ \E n \in 1..MaxBlock :
       LET r == output_data_fn(audios, n)
       IN  /\ audios' = r.audios
           /\ data' = r.data
           /\ pc' = IF r.ok THEN "playing" ELSE "callback_panic"
  /\ UNCHANGED <<wav_files, ret, ncalls>>

NextLive == Startup \/ Decode \/ BuildStream \/ Play \/ Drive

\* while the stream plays, the driver keeps calling
SpecLive == Init /\ [][NextLive]_vars /\ WF_vars(Drive)

\* the last callback returned and read index j of track k
Emitted(k, j) ==
  /\ pc = "playing"
  /\ k <= Len(audios)
  /\ Len(audios[k].buffer) >= 1
  /\ LET L == Len(audios[k].buffer)
     IN  \E i \in 1..Len(data) :
           (audios[k].playhead + L * Len(data) - i) % L = j

\* C15 as claimed: while the driver keeps calling with non-empty blocks,
\* every sample index of every track is emitted again and again; no track
\* falls silent for good.
C15_LoopsForever ==
  \A k \in 1..MaxFiles : \A j \in 0..(MaxLen - 1) :
    (pc = "playing" /\ k <= Len(audios) /\ j < Len(audios[k].buffer))
      ~> Emitted(k, j)


\* C16: no step of next, loop_next, seek or the callback changes the buffer
\* of a track: the tracks there are stay, each with the contents and length
\* it was decoded with; only playheads and the output block change.
C16_BufferImmutable ==
  [][/\ Len(audios') >= Len(audios)
     /\ \A k \in DOMAIN audios : audios'[k].buffer = audios[k].buffer
     /\ wav_files' = wav_files]_vars

\* a track that has been read by calls and then moved by seek
C16_Witness ==
  /\ pc = "api"
  /\ ncalls >= 3
  /\ Len(audios[1].buffer) = 2
  /\ audios[1].playhead = MaxSeek
  /\ ret # 0

\* tracks that callbacks have played round more than once
C16_WitnessCallback ==
  /\ pc = "playing"
  /\ Len(audios) = 2
  /\ ncalls >= 5
  /\ \A k \in DOMAIN audios : audios[k].buffer = new(wav_files[k]).buffer


LongValues == {I16Min, 16384}

\* single-channel files of up to MaxLongLen samples, every read succeeding,
\* and the file that does not open
LongFiles ==
  {[opens |-> TRUE, channels |-> 1, samples |-> s] :
     s \in SeqsUpTo({Ok(x) : x \in LongValues}, MaxLongLen)}
    \cup {[opens |-> FALSE, channels |-> 1, samples |-> <<>>]}

InitLong ==
  /\ pc = "start"
  /\ wav_files \in SeqsUpTo(LongFiles, MaxFiles)
  /\ audios = <<>>
  /\ data = <<>>
  /\ ret = 0
  /\ ncalls = 0

SpecLong == InitLong /\ [][Next]_vars

\* the t-th sample (t >= 1) of the mix of tracks 1..k played from playhead 0
RECURSIVE StreamAt(_, _)
StreamAt(t, k) ==
  IF k = 0 THEN 0
  ELSE StreamAt(t, k - 1)
         + audios[k].buffer[((t - 1) % Len(audios[k].buffer)) + 1]

\* C18: what a sequence of blocks produces depends on the total number of
\* positions only, not on how they were split into blocks: after ncalls
\* positions in all, each playhead is ncalls mod length, and the last block
\* is the stretch of the one stream that ends at position ncalls, as if a
\* single block of ncalls positions had been filled.
C18_PartitionInvariant ==
  pc = "playing" =>
    /\ Len(data) <= ncalls
    /\ \A k \in DOMAIN audios :
         IF Len(audios[k].buffer) = 0
         THEN ncalls = 0 /\ audios[k].playhead = 0
         ELSE audios[k].playhead = ncalls % Len(audios[k].buffer)
    /\ \A i \in 1..Len(data) :
         data[i] = StreamAt(ncalls - Len(data) + i, Len(audios))

\* tracks of 3 and 2 samples, 5 positions so far, the last block of 2
C18_Witness ==
  /\ pc = "playing"
  /\ Len(audios) = 2
  /\ Len(audios[1].buffer) = 3
  /\ Len(audios[2].buffer) = 2
  /\ ncalls = 5
  /\ Len(data) = 2
  /\ audios[1].playhead = 2
  /\ audios[2].playhead = 1

RECURSIVE Gcd(_, _)
Gcd(a, b) == IF b = 0 THEN a ELSE Gcd(b, a % b)

Lcm(a, b) == (a * b) \div Gcd(a, b)

\* lcm of the lengths of tracks 1..k
RECURSIVE LcmOfLengths(_)
LcmOfLengths(k) ==
  IF k = 0 THEN 1 ELSE Lcm(LcmOfLengths(k - 1), Len(audios[k].buffer))

\* C19: with every track of length >= 1 played from playhead 0, all
\* playheads are 0 together exactly when the number of positions produced
\* is a multiple of the lcm of the lengths, and the mix at position t is the
\* mix at position t mod lcm: the stream repeats with period lcm.
C19_JointPeriod ==
  (pc = "playing" /\ \A k \in DOMAIN audios : Len(audios[k].buffer) >= 1) =>
    LET P == LcmOfLengths(Len(audios))
    IN  /\ (\A k \in DOMAIN audios : audios[k].playhead = 0)
             <=> (ncalls % P = 0)
        /\ \A i \in 1..Len(data) :
             data[i] = StreamAt(((ncalls - Len(data) + i - 1) % P) + 1,
                                Len(audios))

\* tracks of 2 and 3 samples back at their start together after 6 positions
C19_Witness ==
  /\ pc = "playing"
  /\ Len(audios) = 2
  /\ Len(audios[1].buffer) = 2
  /\ Len(audios[2].buffer) = 3
  /\ ncalls = 6
  /\ Len(data) >= 1
  /\ audios[1].playhead = 0
  /\ audios[2].playhead = 0

====
